---- MODULE Spec2Model ----
(***************************************************************************)
(* Weather app: the City/Conditions store, the seed initialisation, the    *)
(* background synchronisation loop and the axum request handlers of        *)
(* src/main.rs.                                                            *)
(*                                                                         *)
(* Latitudes, longitudes and temperatures are f64 in the program; the      *)
(* model writes them as integers (degrees * 100); nothing in the program   *)
(* computes with them.  The City and the Conditions objects are kept in    *)
(* bags, so that two equal objects remain two objects.                     *)
(***************************************************************************)
EXTENDS Bags, FiniteSets, Integers, Naturals, Sequences, TLC

(***************************************************************************)
(* Bounds of the model.                                                    *)
(***************************************************************************)
MaxSeeds == 1      \* init iterates over the first MaxSeeds rows of city_data

VARIABLES
    cities,     \* the City objects of the database
    conds,      \* the Conditions objects of the database (a bag)
    main,       \* main(): position in init's loop, then serving
    sync,       \* the task running WeatherApp::run
    h,          \* the add_city requests in flight
    out,        \* what the last step printed or answered
    pass,       \* two-pass harness: passes run, the store after the first
    provider    \* two-pass harness: the observation the provider repeats

vars == <<cities, conds, main, sync, h, out, pass, provider>>

store == <<cities, conds>>
harness == <<pass, provider>>

(***************************************************************************)
(* Data.                                                                   *)
(***************************************************************************)
\* WeatherApp::init, the seed list
city_data ==
    << <<"Andorra la Vella", 4230, 130>>,
       <<"El Serrat", 4237, 133>>,
       <<"Encamp", 4232, 135>>,
       <<"Les Escaldes", 4230, 132>>,
       <<"Sant Julià de Lòria", 4228, 129>>,
       <<"Soldeu", 4234, 140>> >>

Seeds == SubSeq(city_data, 1, MaxSeeds)

AllSeedNames == {city_data[i][1] : i \in 1..Len(city_data)}

\* a name that is not a seed, for /add_city
OtherName == "Ordino"

\* the names requests are made with: a seed and a name that is no seed
Names == {city_data[1][1], OtherName}

\* the coordinates /add_city is called with (they differ from every seed's)
Coords == {<<4255, 152>>}

\* the add_city requests that can be in flight together
Reqs == {"a"}

\* the `time` strings the provider answers with
Times == {"2024-05-01T10:00", "2024-05-01T11:00"}

\* the temperatures the provider answers with (degrees * 100)
Temps == {1840}

\* struct CurrentWeather
CurrentWeather == [temperature : Temps, time : Times]

\* no value: an unset local, an absent response
None == [kind |-> "none"]

(***************************************************************************)
(* Strings.  Names are compared as their sequences of code points.         *)
(***************************************************************************)
CodePoints(name) ==
    CASE name = "Andorra la Vella" ->
           <<65,110,100,111,114,114,97,32,108,97,32,86,101,108,108,97>>
      [] name = "El Serrat" -> <<69,108,32,83,101,114,114,97,116>>
      [] name = "Encamp" -> <<69,110,99,97,109,112>>
      [] name = "Les Escaldes" ->
           <<76,101,115,32,69,115,99,97,108,100,101,115>>
      [] name = "Sant Julià de Lòria" ->
           <<83,97,110,116,32,74,117,108,105,224,32,100,101,32,76,242,114,
             105,97>>
      [] name = "Soldeu" -> <<83,111,108,100,101,117>>
      [] name = "Ordino" -> <<79,114,100,105,110,111>>

RECURSIVE SeqLess(_, _)
SeqLess(a, b) ==
    IF b = <<>> THEN FALSE
    ELSE IF a = <<>> THEN TRUE
    ELSE IF Head(a) # Head(b) THEN Head(a) < Head(b)
    ELSE SeqLess(Tail(a), Tail(b))

\* `order by City.name`: str ordering
StrLess(a, b) == SeqLess(CodePoints(a), CodePoints(b))

\* the City objects of the bag cs that are named `name`
Named(cs, name) ==
    LET found == {c \in BagToSet(cs) : c.name = name}
    IN  [c \in found |-> cs[c]]

\* the bag cs without the objects of the bag gone
Without(cs, gone) ==
    LET keep == {c \in BagToSet(cs) : ~BagIn(c, gone)}
    IN  [c \in keep |-> cs[c]]

\* the sequences that hold each object of the bag cs once
Perms(cs) ==
    {p \in [1..BagCardinality(cs) -> BagToSet(cs)] :
        \A c \in BagToSet(cs) :
            Cardinality({i \in DOMAIN p : p[i] = c}) = cs[c]}

\* the City objects of the bag cs, ascending by name
RECURSIVE OrderByName(_)
OrderByName(cs) ==
    IF cs = EmptyBag THEN <<>>
    ELSE LET least == CHOOSE x \in BagToSet(cs) :
                         \A y \in BagToSet(cs) : ~StrLess(y.name, x.name)
         IN  <<least>> \o OrderByName(cs (-) SetToBag({least}))

(***************************************************************************)
(* The schema's constraints (the schema file is not part of src/).  A      *)
(* Conditions object links to its City; the model writes the link as the   *)
(* name of the City, the key every query of the program selects a City by. *)
(***************************************************************************)
\* City.name is exclusive
ExclusiveName(cs, name) == Named(cs, name) = EmptyBag

\* Conditions is exclusive on (.time, .city)
ExclusiveTimeCity(cn, city, time) ==
    \A row \in BagToSet(cn) : ~(row.city = city /\ row.time = time)

\* deleting a City deletes the Conditions that link to it
OnTargetDelete(cn, gone) ==
    LET keep == {row \in BagToSet(cn) :
                    \A c \in BagToSet(gone) : row.city # c.name}
    IN  [row \in keep |-> cn[row]]

(***************************************************************************)
(* The queries.  Each returns the error of the database or the new         *)
(* content.                                                                *)
(***************************************************************************)
\* insert_city written as an upsert: an existing name gets the new
\* coordinates and the query succeeds
insert_city_upsert(cs, name, lat, long) ==
    [res |-> "Ok",
     cities |-> Without(cs, Named(cs, name))
                (+) SetToBag({[name |-> name, latitude |-> lat,
                               longitude |-> long]})]

\* insert City { name := $0, latitude := $1, longitude := $2 }
insert_city(cs, name, lat, long) ==
    IF ~ExclusiveName(cs, name)
    THEN [res |-> "ConstraintViolationError", cities |-> cs]
    ELSE [res |-> "Ok",
          cities |-> cs (+) SetToBag({[name |-> name, latitude |-> lat,
                                       longitude |-> long]})]

\* insert_conditions written with `unless conflict`: a pair that exists
\* is skipped and the query succeeds
insert_conditions_unless_conflict(cs, cn, name, temperature, time) ==
    LET found == BagCardinality(Named(cs, name))
    IN  IF found > 1
        THEN [res |-> "CardinalityViolationError", conds |-> cn]
        ELSE IF found = 0
        THEN [res |-> "MissingRequiredError", conds |-> cn]
        ELSE IF ~ExclusiveTimeCity(cn, name, time)
        THEN [res |-> "Ok", conds |-> cn]
        ELSE [res |-> "Ok",
              conds |-> cn (+) SetToBag({[city |-> name,
                                          temperature |-> temperature,
                                          time |-> time]})]

\* insert Conditions { city := assert_single((select City filter
\* .name = $0)), temperature := $1, time := $2 }
insert_conditions(cs, cn, name, temperature, time) ==
    LET found == BagCardinality(Named(cs, name))
    IN  IF found > 1
        THEN [res |-> "CardinalityViolationError", conds |-> cn]
        ELSE IF found = 0
        THEN [res |-> "MissingRequiredError", conds |-> cn]
        ELSE IF ~ExclusiveTimeCity(cn, name, time)
        THEN [res |-> "ConstraintViolationError", conds |-> cn]
        ELSE [res |-> "Ok",
              conds |-> cn (+) SetToBag({[city |-> name,
                                          temperature |-> temperature,
                                          time |-> time]})]

\* delete_city on a link without a deletion policy that deletes the
\* source: the Conditions stay
delete_city_keeps_conditions(cs, cn, name) ==
    LET gone == Named(cs, name)
    IN  [res |-> "Ok", deleted |-> gone, cities |-> Without(cs, gone),
         conds |-> cn]

\* delete City filter .name = $0; the result is the deleted objects
delete_city(cs, cn, name) ==
    LET gone == Named(cs, name)
    IN  [res |-> "Ok", deleted |-> gone, cities |-> Without(cs, gone),
         conds |-> OnTargetDelete(cn, gone)]

\* select_city_names ordered descending
select_city_names_desc(cs) ==
    LET ordered == OrderByName(cs)
    IN  [i \in DOMAIN ordered |-> ordered[Len(ordered) + 1 - i].name]

\* select City.name order by City.name: one name per City object
select_city_names(cs) ==
    LET ordered == OrderByName(cs)
    IN  [i \in DOMAIN ordered |-> ordered[i].name]

\* the Conditions of the City named `name`, as select_city returns them:
\* { temperature, time }
conditions_of(cn, name) ==
    {[temperature |-> row.temperature, time |-> row.time] :
        row \in {x \in BagToSet(cn) : x.city = name}}

\* select City { name, latitude, longitude, conditions }: the objects in
\* any order.  update_conditions takes name, latitude and longitude of
\* each; the coordinates only go to weather_for, whose answer is drawn
\* from Answers, and the model keeps the names.
select_cities(cs) ==
    {[i \in DOMAIN p |-> [name |-> p[i].name]] : p \in Perms(cs)}

\* select_city("filter .name = <str>$0") through query_required_single
select_city(cs, cn, name) ==
    LET found == Named(cs, name)
    IN  IF BagCardinality(found) > 1
        THEN [res |-> "CardinalityViolationError"]
        ELSE IF found = EmptyBag
        THEN [res |-> "NoDataError"]
        ELSE LET c == CHOOSE x \in BagToSet(found) : TRUE
             IN  [res |-> "Ok", name |-> c.name, latitude |-> c.latitude,
                  longitude |-> c.longitude,
                  conditions |-> conditions_of(cn, c.name)]

\* a failure of the client that is no answer of the database
ClientError == "ClientConnectionError"

(***************************************************************************)
(* Initial state: the process starts on a database left by earlier runs.   *)
(***************************************************************************)
\* the databases an earlier run of init can have left: City objects of
\* some of the seeds
SeedCity(i) ==
    [name |-> city_data[i][1], latitude |-> city_data[i][2],
     longitude |-> city_data[i][3]]

EarlierStores == {SetToBag({SeedCity(i) : i \in S}) : S \in SUBSET (1..MaxSeeds)}

\* a slot that runs no add_city request
Idle ==
    [pc |-> "idle", name |-> "", lat |-> 0, long |-> 0,
     temperature |-> 0, time |-> ""]

\* the sync task before a pass listed the cities
NoPass ==
    [listed |-> <<>>, idx |-> 1, temperature |-> 0, time |-> "",
     fetchLog |-> <<>>, tried |-> <<>>, result |-> "none"]

SyncAt(pc, locals) ==
    [pc |-> pc, listed |-> locals.listed, idx |-> locals.idx,
     temperature |-> locals.temperature, time |-> locals.time,
     fetchLog |-> locals.fetchLog, tried |-> locals.tried,
     result |-> locals.result]

\* a line printed or a response sent: by whom, its text, the name in it,
\* the result of the query it reports, what it lists
Out(by, kind, name, res, body) ==
    [by |-> by, kind |-> kind, name |-> name, res |-> res, body |-> body]

\* the step printed nothing and answered no request
Silent == Out("", "", "", "", <<>>)

\* the two-pass harness while the program runs: not in use
NoHarness == [n |-> 0, start |-> None, after |-> None, lines |-> {}]

Init ==
    /\ cities \in EarlierStores
    /\ conds = EmptyBag
    /\ main = [pc |-> "init", i |-> 1]
    /\ sync = SyncAt("unspawned", NoPass)
    /\ h = [r \in Reqs |-> Idle]
    /\ out = Silent
    /\ pass = NoHarness
    /\ provider = None

(***************************************************************************)
(* main and WeatherApp::init                                               *)
(***************************************************************************)
\* what init prints for the result of its insert
InitPrints(res) ==
    IF res = "Ok" THEN "inserted!"
    ELSE IF res = "ConstraintViolationError" THEN "already in db"
    ELSE "Unexpected error"

\* one iteration of init's loop; fail: the client could not run the query
InitInsert(fail) ==
    /\ main.pc = "init"
    /\ main.i <= Len(Seeds)
    /\ LET row == Seeds[main.i]
           q == IF fail THEN [res |-> ClientError, cities |-> cities]
                ELSE insert_city(cities, row[1], row[2], row[3])
       IN  /\ cities' = q.cities
           /\ out' = Out("init", InitPrints(q.res), row[1], q.res, <<>>)
    /\ main' = [main EXCEPT !.i = main.i + 1]
    /\ UNCHANGED <<conds, sync, h, harness>>

\* init returned: main spawns run() and serves the routes
MainServe ==
    /\ main.pc = "init"
    /\ main.i > Len(Seeds)
    /\ main' = [main EXCEPT !.pc = "serving"]
    /\ sync' = SyncAt("startup", NoPass)
    /\ out' = Silent
    /\ UNCHANGED <<store, h, harness>>

(***************************************************************************)
(* WeatherApp::run and WeatherApp::update_conditions                       *)
(***************************************************************************)
\* sleep(100 ms) is over: the loop is entered
RunStartup ==
    /\ sync.pc = "startup"
    /\ sync' = SyncAt("update", NoPass)
    /\ out' = Out("run", "Looping...", "", "", <<>>)
    /\ UNCHANGED <<store, main, h, harness>>

\* sleep(60 s) is over: the next iteration of the loop
RunWake ==
    /\ sync.pc = "sleep"
    /\ sync' = SyncAt("update", NoPass)
    /\ out' = Out("run", "Looping...", "", "", <<>>)
    /\ UNCHANGED <<store, main, h, harness>>

\* Returned for a run that applies `?` to update_conditions: an Err ends
\* the task
ReturnedStops(locals, result) ==
    [SyncAt(IF result = "Err" THEN "stopped" ELSE "sleep", locals) EXCEPT
        !.result = result, !.temperature = 0, !.time = ""]

\* update_conditions returned `result`: run goes to sleep
Returned(locals, result) ==
    [SyncAt("sleep", locals) EXCEPT !.result = result, !.temperature = 0,
                                    !.time = ""]

\* what run prints for an error of update_conditions
RunPrints(name, res) == Out("run", "Loop isn't working", name, res, <<>>)

\* update_conditions: self.get_cities().await?
GetCities(fail) ==
    /\ sync.pc = "update"
    /\ IF fail
       THEN /\ sync' = Returned(NoPass, "Err")
            /\ out' = RunPrints("", ClientError)
       ELSE /\ \E l \in select_cities(cities) :
                 LET locals == [NoPass EXCEPT !.listed = l]
                 IN  sync' = IF l = <<>> THEN Returned(locals, "Ok")
                             ELSE SyncAt("fetch", locals)
            /\ out' = Silent
    /\ UNCHANGED <<store, main, h>>

\* WeatherFor with the error of the provider swallowed: the loop goes on to
\* the insert with a default observation
WeatherForSwallows(weather) ==
    /\ sync.pc = "fetch"
    /\ LET city == sync.listed[sync.idx]
           logged == [sync EXCEPT !.fetchLog =
                        Append(@, [name |-> city.name,
                                   ok |-> weather # None])]
       IN  /\ sync' = [SyncAt("insert", logged) EXCEPT
                         !.temperature =
                            IF weather = None THEN 0 ELSE weather.temperature,
                         !.time = IF weather = None THEN ""
                                  ELSE weather.time]
           /\ out' = Silent
    /\ UNCHANGED <<store, main, h>>

\* update_conditions: weather_for(latitude, longitude).await?
\* weather: what the provider answered, None when the request failed
WeatherFor(weather) ==
    /\ sync.pc = "fetch"
    /\ LET city == sync.listed[sync.idx]
           logged == [sync EXCEPT !.fetchLog =
                        Append(@, [name |-> city.name,
                                   ok |-> weather # None])]
       IN  IF weather = None
           THEN /\ sync' = Returned(logged, "Err")
                /\ out' = RunPrints(city.name, "ProviderError")
           ELSE /\ sync' = [SyncAt("insert", logged) EXCEPT
                              !.temperature = weather.temperature,
                              !.time = weather.time]
                /\ out' = Silent
    /\ UNCHANGED <<store, main, h>>

\* UpdatePrints that reports a ConstraintViolation like any other error
UpdatePrintsViolations(res) ==
    IF res = "Ok" THEN "Inserted new conditions" ELSE "Unexpected error"

\* what update_conditions prints for the result of its insert
UpdatePrints(res) ==
    IF res = "Ok" THEN "Inserted new conditions"
    ELSE IF res # "ConstraintViolationError" THEN "Unexpected error"
    ELSE ""

\* InsertConditions with `?` on the insert: an error other than a
\* ConstraintViolation ends the pass
InsertConditionsAborts(fail) ==
    /\ sync.pc = "insert"
    /\ LET city == sync.listed[sync.idx]
           q == IF fail THEN [res |-> ClientError, conds |-> conds]
                ELSE insert_conditions(cities, conds, city.name,
                                       sync.temperature, sync.time)
           logged == [sync EXCEPT !.tried = Append(@, city.name),
                                  !.idx = sync.idx + 1,
                                  !.temperature = 0, !.time = ""]
       IN  /\ conds' = q.conds
           /\ sync' = IF q.res \notin {"Ok", "ConstraintViolationError"}
                      THEN Returned(logged, "Err")
                      ELSE IF sync.idx + 1 > Len(sync.listed)
                      THEN Returned(logged, "Ok")
                      ELSE SyncAt("fetch", logged)
           /\ out' = Out("update_conditions", UpdatePrints(q.res), city.name,
                         q.res, <<sync.time>>)
    /\ UNCHANGED <<cities, main, h>>

\* update_conditions: execute(insert_conditions(), ...) and the match on it
InsertConditions(fail) ==
    /\ sync.pc = "insert"
    /\ LET city == sync.listed[sync.idx]
           q == IF fail THEN [res |-> ClientError, conds |-> conds]
                ELSE insert_conditions(cities, conds, city.name,
                                       sync.temperature, sync.time)
           logged == [sync EXCEPT !.tried = Append(@, city.name),
                                  !.idx = sync.idx + 1,
                                  !.temperature = 0, !.time = ""]
       IN  /\ conds' = q.conds
           /\ sync' = IF sync.idx + 1 > Len(sync.listed)
                      THEN Returned(logged, "Ok")
                      ELSE SyncAt("fetch", logged)
           /\ out' = Out("update_conditions", UpdatePrints(q.res), city.name,
                         q.res, <<sync.time>>)
    /\ UNCHANGED <<cities, main, h>>

\* the three steps of a pass while the program runs
\* UpdateGetCities with a pass that first rounds the coordinates of the
\* City objects to whole degrees
UpdateGetCitiesRewrites(fail) ==
    /\ sync.pc = "update"
    /\ IF fail
       THEN /\ sync' = Returned(NoPass, "Err")
            /\ out' = RunPrints("", ClientError)
            /\ cities' = cities
       ELSE /\ \E l \in select_cities(cities) :
                 LET locals == [NoPass EXCEPT !.listed = l]
                 IN  sync' = IF l = <<>> THEN Returned(locals, "Ok")
                             ELSE SyncAt("fetch", locals)
            /\ out' = Silent
            /\ cities' = SetToBag({[c EXCEPT
                                      !.latitude = (@ \div 100) * 100,
                                      !.longitude = (@ \div 100) * 100] :
                                    c \in BagToSet(cities)})
    /\ UNCHANGED <<conds, main, h, harness>>

UpdateGetCities(fail) == GetCities(fail) /\ UNCHANGED harness

\* UpdateFetch that asks the provider again when the request failed (at
\* most once more than the pass has cities)
UpdateFetchRetries(weather) ==
    /\ sync.pc = "fetch"
    /\ IF weather = None
       THEN /\ sync' = [sync EXCEPT !.fetchLog =
                          Append(@, [name |-> sync.listed[sync.idx].name,
                                     ok |-> FALSE])]
            /\ out' = Silent
            /\ UNCHANGED <<store, main, h>>
       ELSE WeatherFor(weather)
    /\ Len(sync.fetchLog) < Len(sync.listed) + 1
    /\ UNCHANGED harness

UpdateFetch(weather) == WeatherFor(weather) /\ UNCHANGED harness

\* UpdateInsert with a query that creates the City it does not find
UpdateInsertRecreates(fail) ==
    /\ sync.pc = "insert"
    /\ LET name == sync.listed[sync.idx].name
           cs == IF fail THEN cities
                 ELSE insert_city_upsert(cities, name, 0, 0).cities
           q == IF fail THEN [res |-> ClientError, conds |-> conds]
                ELSE insert_conditions(cs, conds, name, sync.temperature,
                                       sync.time)
           logged == [sync EXCEPT !.tried = Append(@, name),
                                  !.idx = sync.idx + 1,
                                  !.temperature = 0, !.time = ""]
       IN  /\ cities' = IF Named(cities, name) = EmptyBag THEN cs ELSE cities
           /\ conds' = q.conds
           /\ sync' = IF sync.idx + 1 > Len(sync.listed)
                      THEN Returned(logged, "Ok")
                      ELSE SyncAt("fetch", logged)
           /\ out' = Out("update_conditions", UpdatePrints(q.res), name,
                         q.res, <<sync.time>>)
    /\ UNCHANGED <<main, h, harness>>

UpdateInsert(fail) == InsertConditions(fail) /\ UNCHANGED harness

(***************************************************************************)
(* The axum handlers.  An idle slot takes the next add_city request; the   *)
(* other handlers run one query and answer.                                *)
(***************************************************************************)
Serving == main.pc = "serving"

\* GET /add_city/:name/:latitude/:longitude arrives
AddCityStart(r, name, lat, long) ==
    /\ Serving
    /\ h[r].pc = "idle"
    /\ h' = [h EXCEPT ![r] = [Idle EXCEPT !.pc = "fetch", !.name = name,
                                !.lat = lat, !.long = long]]
    /\ out' = Silent
    /\ UNCHANGED <<store, main, sync, harness>>

\* AddCityFetch with the City inserted before the provider is asked
AddCityFetchInsertsFirst(r, weather) ==
    /\ h[r].pc = "fetch"
    /\ cities' = insert_city(cities, h[r].name, h[r].lat, h[r].long).cities
    /\ IF weather = None
       THEN /\ h' = [h EXCEPT ![r] = Idle]
            /\ out' = Out("add_city", "Couldn't get weather info", h[r].name,
                          "ProviderError", <<>>)
       ELSE /\ h' = [h EXCEPT ![r].pc = "insert_city",
                              ![r].temperature = weather.temperature,
                              ![r].time = weather.time]
            /\ out' = Silent
    /\ UNCHANGED <<conds, main, sync, harness>>

\* add_city: weather_for(lat, long); weather is None when it failed
AddCityFetch(r, weather) ==
    /\ h[r].pc = "fetch"
    /\ IF weather = None
       THEN /\ h' = [h EXCEPT ![r] = Idle]
            /\ out' = Out("add_city", "Couldn't get weather info", h[r].name,
                          "ProviderError", <<>>)
       ELSE /\ h' = [h EXCEPT ![r].pc = "insert_city",
                              ![r].temperature = weather.temperature,
                              ![r].time = weather.time]
            /\ out' = Silent
    /\ UNCHANGED <<store, main, sync, harness>>

\* AddCityInsertCity that ignores the error of the insert and goes on to
\* the insert of the Conditions
AddCityInsertCityGoesOn(r, fail) ==
    /\ h[r].pc = "insert_city"
    /\ LET q == IF fail THEN [res |-> ClientError, cities |-> cities]
                ELSE insert_city(cities, h[r].name, h[r].lat, h[r].long)
       IN  /\ cities' = q.cities
           /\ h' = [h EXCEPT ![r].pc = "insert_conditions"]
           /\ out' = Silent
    /\ UNCHANGED <<conds, main, sync, harness>>

\* add_city: execute(insert_city(), ...)
AddCityInsertCity(r, fail) ==
    /\ h[r].pc = "insert_city"
    /\ LET q == IF fail THEN [res |-> ClientError, cities |-> cities]
                ELSE insert_city(cities, h[r].name, h[r].lat, h[r].long)
       IN  /\ cities' = q.cities
           /\ IF q.res = "Ok"
              THEN /\ h' = [h EXCEPT ![r].pc = "insert_conditions"]
                   /\ out' = Silent
              ELSE /\ h' = [h EXCEPT ![r] = Idle]
                   /\ out' = Out("add_city", "error", h[r].name, q.res, <<>>)
    /\ UNCHANGED <<conds, main, sync, harness>>

\* AddCityInsertConditions that deletes the City again when the insert of
\* the Conditions failed
AddCityInsertConditionsRollsBack(r, fail) ==
    /\ h[r].pc = "insert_conditions"
    /\ LET q == IF fail THEN [res |-> ClientError, conds |-> conds]
                ELSE insert_conditions(cities, conds, h[r].name,
                                       h[r].temperature, h[r].time)
       IN  /\ conds' = q.conds
           /\ cities' = IF q.res = "Ok" THEN cities
                        ELSE delete_city(cities, conds, h[r].name).cities
           /\ out' = IF q.res = "Ok"
                     THEN Out("add_city", "Inserted city", h[r].name, q.res,
                              <<h[r].time>>)
                     ELSE Out("add_city",
                              "Inserted City but couldn't insert conditions",
                              h[r].name, q.res, <<h[r].time>>)
    /\ h' = [h EXCEPT ![r] = Idle]
    /\ UNCHANGED <<main, sync, harness>>

\* add_city: execute(insert_conditions(), ...)
AddCityInsertConditions(r, fail) ==
    /\ h[r].pc = "insert_conditions"
    /\ LET q == IF fail THEN [res |-> ClientError, conds |-> conds]
                ELSE insert_conditions(cities, conds, h[r].name,
                                       h[r].temperature, h[r].time)
       IN  /\ conds' = q.conds
           /\ out' = IF q.res = "Ok"
                     THEN Out("add_city", "Inserted city", h[r].name, q.res,
                              <<h[r].time>>)
                     ELSE Out("add_city",
                              "Inserted City but couldn't insert conditions",
                              h[r].name, q.res, <<h[r].time>>)
    /\ h' = [h EXCEPT ![r] = Idle]
    /\ UNCHANGED <<cities, main, sync, harness>>

\* RemoveText with the test of v.is_empty() inverted
RemoveTextInverted(name, q) ==
    IF q.res # "Ok" THEN Out("remove_city", "error", name, q.res, <<>>)
    ELSE IF q.deleted # EmptyBag
    THEN Out("remove_city", "No city found to remove", name, q.res, <<>>)
    ELSE Out("remove_city", "City removed", name, q.res, <<>>)

\* what remove_city answers for the result of its query
RemoveText(name, q) ==
    IF q.res # "Ok" THEN Out("remove_city", "error", name, q.res, <<>>)
    ELSE IF q.deleted = EmptyBag
    THEN Out("remove_city", "No city found to remove", name, q.res, <<>>)
    ELSE Out("remove_city", "City removed", name, q.res, <<>>)

\* GET /remove_city/:name
RemoveCity(name, fail) ==
    /\ Serving
    /\ LET q == IF fail THEN [res |-> ClientError, deleted |-> EmptyBag,
                              cities |-> cities, conds |-> conds]
                ELSE delete_city(cities, conds, name)
       IN  /\ cities' = q.cities
           /\ conds' = q.conds
           /\ out' = RemoveText(name, q)
    /\ UNCHANGED <<main, sync, h, harness>>

\* GET /city_names
CityNames(fail) ==
    /\ Serving
    /\ out' = IF fail THEN Out("city_names", "error", "", ClientError, <<>>)
              ELSE Out("city_names", "names", "", "Ok",
                       select_city_names(cities))
    /\ UNCHANGED <<store, main, sync, h, harness>>

\* what get_conditions answers for the result of its query
ConditionsText(name, q) ==
    IF q.res = "Ok"
    THEN Out("get_conditions", "Conditions for", name, q.res, q.conditions)
    ELSE Out("get_conditions", "Couldn't find", name, q.res, <<>>)

\* GET /conditions/:name
GetConditions(name, fail) ==
    /\ Serving
    /\ LET q == IF fail THEN [res |-> ClientError]
                ELSE select_city(cities, conds, name)
       IN  out' = ConditionsText(name, q)
    /\ UNCHANGED <<store, main, sync, h, harness>>

(***************************************************************************)
(* The program: main, the sync task and the requests that write,           *)
(* interleaved at their awaits.                                            *)
(***************************************************************************)
\* what the provider can answer
Answers == CurrentWeather \cup {None}

Next ==
    \/ \E fail \in BOOLEAN : InitInsert(fail)
    \/ MainServe
    \/ RunStartup
    \/ RunWake
    \/ \E fail \in BOOLEAN : UpdateGetCities(fail)
    \/ \E w \in Answers : UpdateFetch(w)
    \/ \E fail \in BOOLEAN : UpdateInsert(fail)
    \/ \E r \in Reqs, name \in Names, c \in Coords :
          AddCityStart(r, name, c[1], c[2])
    \/ \E r \in Reqs, w \in Answers : AddCityFetch(r, w)
    \/ \E r \in Reqs, fail \in BOOLEAN : AddCityInsertCity(r, fail)
    \/ \E r \in Reqs, fail \in BOOLEAN : AddCityInsertConditions(r, fail)
    \/ \E name \in Names, fail \in BOOLEAN : RemoveCity(name, fail)

Spec == Init /\ [][Next]_vars

(***************************************************************************)
(* The sync loop under a fair scheduler: every await of the task returns,  *)
(* with a result or with an error (a sleep ends, a query or a request to   *)
(* the provider is answered or fails).                                     *)
(***************************************************************************)
SyncNext ==
    \/ RunStartup
    \/ RunWake
    \/ \E fail \in BOOLEAN : UpdateGetCities(fail)
    \/ \E w \in Answers : UpdateFetch(w)
    \/ \E fail \in BOOLEAN : UpdateInsert(fail)

\* the loop next to init and to the requests that delete: what a pass
\* finds listed can be gone when it inserts
NextLoop ==
    \/ \E fail \in BOOLEAN : InitInsert(fail)
    \/ MainServe
    \/ SyncNext
    \/ \E name \in Names, fail \in BOOLEAN : RemoveCity(name, fail)

FairLoop == Init /\ [][NextLoop]_vars /\ WF_vars(SyncNext)

(***************************************************************************)
(* The handlers that only read, on the stores the program can hold.        *)
(***************************************************************************)
\* the City objects of the seeds and of a registered name
KnownCities ==
    {SeedCity(i) : i \in 1..Len(city_data)}
    \cup {[name |-> OtherName, latitude |-> c[1], longitude |-> c[2]] :
            c \in Coords}

\* one Conditions object at each time of T for each City of cs that
\* requests name
Observed(cs, T) ==
    SetToBag({[city |-> c.name, temperature |-> w.temperature,
               time |-> w.time] :
                c \in {x \in cs : x.name \in Names},
                w \in {x \in CurrentWeather : x.time \in T}})

InitQueries ==
    /\ \E cs \in SUBSET KnownCities, T \in SUBSET Times :
          /\ \A c, d \in cs : c.name = d.name => c = d
          /\ cities = SetToBag(cs)
          /\ conds = Observed(cs, T)
    /\ main = [pc |-> "serving", i |-> Len(Seeds) + 1]
    /\ sync = SyncAt("startup", NoPass)
    /\ h = [r \in Reqs |-> Idle]
    /\ out = Silent
    /\ pass = NoHarness
    /\ provider = None

NextQueries ==
    \/ \E fail \in BOOLEAN : CityNames(fail)
    \/ \E name \in Names, fail \in BOOLEAN : GetConditions(name, fail)

SpecQueries == InitQueries /\ [][NextQueries]_vars

(***************************************************************************)
(* Two sync passes in a row with nothing in between: the client reaches    *)
(* the database and the provider answers each city with the same           *)
(* observation in both passes.                                             *)
(***************************************************************************)
\* the cities the two passes can find
PassCities ==
    {SeedCity(i) : i \in 1..MaxSeeds}
    \cup {[name |-> OtherName, latitude |-> c[1], longitude |-> c[2]] :
            c \in Coords}

InitTwice ==
    /\ \E cs \in SUBSET PassCities :
          /\ cities = SetToBag(cs)
          /\ \E stored \in SUBSET cs, w \in CurrentWeather :
                conds = SetToBag({[city |-> c.name,
                                   temperature |-> w.temperature,
                                   time |-> w.time] : c \in stored})
          /\ provider \in [{c.name : c \in cs} -> CurrentWeather]
    /\ main = [pc |-> "serving", i |-> Len(Seeds) + 1]
    /\ sync = SyncAt("update", NoPass)
    /\ h = [r \in Reqs |-> Idle]
    /\ out = Silent
    /\ pass = [NoHarness EXCEPT !.start = <<cities, conds>>]

\* the harness counts the passes, keeps the store the first pass left and
\* the lines the second pass printed
Counted ==
    /\ provider' = provider
    /\ pass' = [pass EXCEPT
          !.n = IF sync'.pc = "sleep" THEN @ + 1 ELSE @,
          !.after = IF sync'.pc = "sleep" /\ pass.n = 0
                    THEN <<cities', conds'>> ELSE @,
          !.lines = IF pass.n = 1 THEN @ \cup {out'.kind} ELSE @]

TwiceGetCities == GetCities(FALSE) /\ Counted

TwiceFetch == WeatherFor(provider[sync.listed[sync.idx].name]) /\ Counted

TwiceInsert == InsertConditions(FALSE) /\ Counted

TwiceWake == pass.n = 1 /\ RunWake

NextTwice == TwiceGetCities \/ TwiceFetch \/ TwiceInsert \/ TwiceWake

SpecTwice == InitTwice /\ [][NextTwice]_vars

(***************************************************************************)
(* main up to the first request, with init over the six rows of city_data  *)
(* on every store of seeds an earlier run can have left.                   *)
(***************************************************************************)
SeedStores ==
    {SetToBag({SeedCity(i) : i \in S}) : S \in SUBSET (1..Len(city_data))}

InitSeeds ==
    /\ cities \in SeedStores
    /\ conds = EmptyBag
    /\ main = [pc |-> "init", i |-> 1]
    /\ sync = SyncAt("unspawned", NoPass)
    /\ h = [r \in Reqs |-> Idle]
    /\ out = Silent
    /\ pass = [NoHarness EXCEPT !.start = <<cities, conds>>]
    /\ provider = None

\* InitInsertSeed with `?` on the insert: an error other than a
\* ConstraintViolation ends init
InitInsertSeedStops(fail) ==
    /\ main.pc = "init"
    /\ main.i <= Len(city_data)
    /\ LET row == city_data[main.i]
           q == IF fail THEN [res |-> ClientError, cities |-> cities]
                ELSE insert_city(cities, row[1], row[2], row[3])
       IN  /\ cities' = q.cities
           /\ out' = Out("init", InitPrints(q.res), row[1], q.res, <<>>)
           /\ main' = [main EXCEPT !.i = IF q.res = ClientError
                                          THEN Len(city_data) + 1
                                          ELSE main.i + 1]
    /\ UNCHANGED <<conds, sync, h, harness>>

\* one iteration of init's loop over city_data
InitInsertSeed(fail) ==
    /\ main.pc = "init"
    /\ main.i <= Len(city_data)
    /\ LET row == city_data[main.i]
           q == IF fail THEN [res |-> ClientError, cities |-> cities]
                ELSE insert_city(cities, row[1], row[2], row[3])
       IN  /\ cities' = q.cities
           /\ out' = Out("init", InitPrints(q.res), row[1], q.res, <<>>)
    /\ main' = [main EXCEPT !.i = main.i + 1]
    /\ UNCHANGED <<conds, sync, h, harness>>

\* init returned after the last row: main spawns run() and serves
ServeSeeds ==
    /\ main.pc = "init"
    /\ main.i > Len(city_data)
    /\ main' = [main EXCEPT !.pc = "serving"]
    /\ sync' = SyncAt("startup", NoPass)
    /\ out' = Silent
    /\ UNCHANGED <<store, h, harness>>

NextSeeds ==
    \/ \E fail \in BOOLEAN : InitInsertSeed(fail)
    \/ ServeSeeds
    \/ RunStartup
    \/ \E fail \in BOOLEAN : CityNames(fail)

SpecSeeds == InitSeeds /\ [][NextSeeds]_vars

(***************************************************************************)
(* Properties of a sync pass.                                              *)
(***************************************************************************)
\* the elements of a sequence
Range(q) == {q[i] : i \in DOMAIN q}

\* the names whose fetch failed in the pass in progress or just ended
FailedFetches == {e.name : e \in {x \in Range(sync.fetchLog) : ~x.ok}}

\* C1: a provider-fetch failure for one city never aborts the pass for the
\* remaining cities: when the pass has ended, every listed city has had its
\* fetch, so that a city B listed after a city A whose fetch failed still
\* gets its Conditions row.
C1_FetchFailureNeverAborts ==
    sync.pc = "sleep" => Len(sync.fetchLog) = Len(sync.listed)

\* C10: when the provider fetch for a city fails, no insert_conditions is
\* attempted for that city in that pass: every insert of the pass is for a
\* city whose fetch succeeded in the pass, and the step of the failed fetch
\* leaves the Conditions rows as they are.
C10_FailedFetchSkipsInsert ==
    /\ [](\A name \in FailedFetches : name \notin Range(sync.tried))
    /\ [](\A name \in Range(sync.tried) :
            [name |-> name, ok |-> TRUE] \in Range(sync.fetchLog))
    /\ [][FailedFetches' # FailedFetches => conds' = conds]_vars

\* a pass that inserted for one city and then had a fetch fail
C10_Witness ==
    /\ sync.pc = "sleep"
    /\ FailedFetches # {}
    /\ sync.tried # <<>>

(***************************************************************************)
(* Properties of the store and of the handlers.                            *)
(***************************************************************************)
\* the number of City objects named `name`
Count(cs, name) == BagCardinality(Named(cs, name))

\* the number of Conditions objects of the City named `city` at `time`
Rows(cn, city, time) ==
    LET found == {row \in BagToSet(cn) : row.city = city /\ row.time = time}
    IN  BagCardinality([row \in found |-> cn[row]])

\* the step is the insert of Conditions of a sync pass
SyncInsertStep == sync.pc = "insert" /\ sync' # sync

\* the step is the insert of Conditions of the add_city request r
AddInsertStep(r) == h[r].pc = "insert_conditions" /\ h'[r] # h[r]

\* the step is the insert of a City of the add_city request r
AddInsertCityStep(r) == h[r].pc = "insert_city" /\ h'[r] # h[r]

\* the partial-success response of add_city
Partial == "Inserted City but couldn't insert conditions"

\* C2: when add_city and a sync pass race to insert Conditions for the same
\* (city, time), exactly one insert succeeds and the other observes
\* ConstraintViolation: an insert the database answers succeeds exactly when
\* no row for the pair exists, then there is one row; an insert that finds
\* the row observes ConstraintViolation and leaves the rows alone; in every
\* state the store holds at most one row per (city, time).
C2_OneInsertPerCityTime ==
    /\ [](\A row \in BagToSet(conds) : Rows(conds, row.city, row.time) = 1)
    /\ [][(SyncInsertStep \/ \E r \in Reqs : AddInsertStep(r)) =>
            LET n == out'.name
                t == out'.body[1]
            IN  /\ out'.res = "Ok" =>
                      Rows(conds, n, t) = 0 /\ Rows(conds', n, t) = 1
                /\ out'.res = "ConstraintViolationError" =>
                      Rows(conds, n, t) = 1 /\ conds' = conds
                /\ (Count(cities, n) = 1 /\ out'.res # ClientError) =>
                      out'.res = IF Rows(conds, n, t) = 0 THEN "Ok"
                                 ELSE "ConstraintViolationError"]_vars

\* add_city lost the race: the sync pass inserted the pair after add_city
\* inserted the City and before add_city inserted its Conditions
C2_Witness ==
    /\ out.by = "add_city"
    /\ out.kind = Partial
    /\ out.res = "ConstraintViolationError"
    /\ Rows(conds, out.name, out.body[1]) = 1

\* C3: if the provider fetch fails during add_city, the request returns the
\* provider error and performs no store write: no step of the request up to
\* that response changes the City or the Conditions rows.
C3_FailedFetchWritesNothing ==
    [][\A r \in Reqs :
         /\ (h[r].pc \in {"idle", "fetch"} /\ h'[r] # h[r]) =>
               (cities' = cities /\ conds' = conds)
         /\ (h[r].pc = "fetch" /\ h'[r].pc = "idle") =>
               out' = Out("add_city", "Couldn't get weather info",
                          h[r].name, "ProviderError", <<>>)
         /\ out'.kind = "Couldn't get weather info" =>
               /\ \E q \in Reqs : h[q].pc = "fetch" /\ h'[q] = Idle
               /\ cities' = cities /\ conds' = conds]_vars

\* a registration failed at the provider and left no City row behind
C3_Witness ==
    /\ out.kind = "Couldn't get weather info"
    /\ out.name = OtherName
    /\ Count(cities, OtherName) = 0

\* C4: city names are unique in every reachable state; inserting an
\* existing name, by add_city or by init, is rejected with
\* ConstraintViolation (unless the client failed before the database
\* answered), leaves the store as it is and add_city reports the error.
C4_NamesUnique ==
    /\ [](\A c \in BagToSet(cities) : Count(cities, c.name) = 1)
    /\ [][\A r \in Reqs :
            (AddInsertCityStep(r) /\ Count(cities, h[r].name) >= 1) =>
               /\ cities' = cities /\ conds' = conds
               /\ h'[r] = Idle
               /\ out'.by = "add_city" /\ out'.kind = "error"
               /\ out'.name = h[r].name
               /\ out'.res \in {"ConstraintViolationError", ClientError}]_vars
    /\ [][(main.pc = "init" /\ main'.i # main.i
            /\ Count(cities, Seeds[main.i][1]) >= 1) =>
               /\ cities' = cities /\ conds' = conds
               /\ out'.res \in {"ConstraintViolationError", ClientError}]_vars

\* a name was registered again: the request reports the violation and one
\* City of that name exists
C4_Witness ==
    /\ out.by = "add_city"
    /\ out.kind = "error"
    /\ out.res = "ConstraintViolationError"
    /\ Count(cities, out.name) = 1

\* C5 as stated: whenever add_city returns the partial-success message, the
\* City row of that name exists in the store.
C5_CityExistsAtPartial ==
    out.kind = Partial => Count(cities, out.name) >= 1

\* C5 amended: add_city returns the partial-success message exactly when
\* its insert_city succeeded and its insert_conditions failed; the request
\* never removes the City it inserted, and while it waits for
\* insert_conditions that City disappears only by a remove_city request for
\* its name.
C5_CityKeptUnlessRemoved ==
    /\ [](out.kind = Partial => out.by = "add_city" /\ out.res # "Ok")
    /\ [][\A r \in Reqs :
            /\ (AddInsertCityStep(r) /\ h'[r].pc = "insert_conditions") =>
                  Count(cities', h[r].name) = 1
            /\ (h[r].pc = "insert_conditions"
                /\ Count(cities', h[r].name) < Count(cities, h[r].name)) =>
                  out' = Out("remove_city", "City removed", h[r].name, "Ok",
                             <<>>)
            /\ AddInsertStep(r) =>
                  /\ cities' = cities
                  /\ h'[r] = Idle
                  /\ out'.by = "add_city" /\ out'.name = h[r].name
                  /\ out'.kind = IF out'.res = "Ok" THEN "Inserted city"
                                 ELSE Partial]_vars

\* the partial-success message is returned and the City exists
C5_Witness ==
    /\ out.kind = Partial
    /\ Count(cities, out.name) = 1

\* C7: remove_city of a name with no City leaves the store unchanged and
\* answers 'not found'; remove_city of an existing City removes that City
\* and every Conditions row of it and nothing else, and a conditions lookup
\* of that name on the resulting store reports that it could not find it.
C7_RemoveCity ==
    [][out'.by = "remove_city" =>
         LET n == out'.name
             others(cn) == [row \in {x \in BagToSet(cn) : x.city # n}
                              |-> cn[row]]
         IN  /\ out'.kind \in {"City removed", "No city found to remove",
                               "error"}
             /\ out'.kind # "City removed" =>
                   (cities' = cities /\ conds' = conds)
             /\ (out'.kind = "No city found to remove") =>
                   Count(cities, n) = 0
             /\ (Count(cities, n) = 0 /\ out'.res = "Ok") =>
                   out'.kind = "No city found to remove"
             /\ (Count(cities, n) >= 1 /\ out'.res = "Ok") =>
                   /\ out'.kind = "City removed"
                   /\ Count(cities', n) = 0
                   /\ cities' = Without(cities, Named(cities, n))
                   /\ conds' = others(conds)
                   /\ ConditionsText(n, select_city(cities', conds', n)).kind
                         = "Couldn't find"]_vars

\* a City was removed while another City keeps its Conditions
C7_Witness ==
    /\ out.by = "remove_city"
    /\ out.kind = "City removed"
    /\ conds # EmptyBag

(***************************************************************************)
(* Properties of the loop, of two passes in a row and of the listing.      *)
(***************************************************************************)
\* C6: the loop of run never terminates and always returns from a pass to
\* sleeping: a pass in progress ends in the sleep whatever its outcome, the
\* sleep ends in the next pass, and the task, once spawned, is always at
\* one of the steps of the loop.
C6_LoopNeverStops ==
    /\ (sync.pc \in {"update", "fetch", "insert"}) ~> (sync.pc = "sleep")
    /\ (sync.pc = "sleep") ~> (sync.pc = "update")
    /\ [](sync.pc = "sleep" => sync.result \in {"Ok", "Err"})
    /\ [][sync.pc # "unspawned" =>
            sync'.pc \in {"startup", "update", "fetch", "insert", "sleep"}]_vars

\* a pass failed at the provider, run printed the error and sleeps
C6_Witness ==
    /\ sync.pc = "sleep"
    /\ sync.result = "Err"
    /\ Len(sync.fetchLog) >= 1
    /\ out.kind = "Loop isn't working"

\* C8: two passes in a row with the same observations: the store after the
\* second pass equals the store after the first, the second pass adds no
\* Conditions row, prints no error and returns Ok.
C8_SecondPassChangesNothing ==
    /\ pass.n >= 1 => <<cities, conds>> = pass.after
    /\ pass.n = 2 => sync.result = "Ok"
    /\ pass.lines \subseteq {"", "Looping..."}

\* both passes ran over two cities and the first one inserted rows
C8_Witness ==
    /\ pass.n = 2
    /\ Len(sync.listed) = 2
    /\ Len(sync.tried) = 2
    /\ pass.after # pass.start

\* C9: city_names answers with the names of the City objects in the store,
\* each once, in ascending order; for Soldeu, Encamp and Andorra la Vella
\* the answer is Andorra la Vella, Encamp, Soldeu.
C9_NamesSorted ==
    (out.by = "city_names" /\ out.kind = "names") =>
        LET l == out.body
        IN  /\ Len(l) = BagCardinality(cities)
            /\ Range(l) = {c.name : c \in BagToSet(cities)}
            /\ \A i, j \in DOMAIN l : i < j => StrLess(l[i], l[j])
            /\ Range(l) = {"Soldeu", "Encamp", "Andorra la Vella"} =>
                  l = <<"Andorra la Vella", "Encamp", "Soldeu">>
            /\ Range(l) = AllSeedNames =>
                  l = <<"Andorra la Vella", "El Serrat", "Encamp",
                        "Les Escaldes", "Sant Julià de Lòria", "Soldeu">>

\* the listing of Soldeu, Encamp and Andorra la Vella
C9_Witness ==
    /\ out.by = "city_names"
    /\ out.body = <<"Andorra la Vella", "Encamp", "Soldeu">>

(***************************************************************************)
(* Failures inside a sync pass and inside add_city.                        *)
(***************************************************************************)
\* the step is an insert of a sync pass that failed
SyncInsertFailed == SyncInsertStep /\ out'.res # "Ok"

C12_FailedInsertCityEndsRequest ==
    /\ [][\A r \in Reqs :
            /\ (AddInsertCityStep(r) /\ cities' = cities) =>
                  /\ conds' = conds
                  /\ h'[r] = Idle
                  /\ out' \in {Out("add_city", "error", h[r].name, e, <<>>) :
                                e \in {"ConstraintViolationError",
                                       ClientError}}
            /\ (AddInsertCityStep(r) /\ Count(cities, h[r].name) >= 1) =>
                  (cities' = cities
                   /\ conditions_of(conds', h[r].name)
                         = conditions_of(conds, h[r].name))
            /\ (h[r].pc # "insert_conditions"
                /\ h'[r].pc = "insert_conditions") =>
                  /\ h[r].pc = "insert_city"
                  /\ Count(cities, h[r].name) = 0
                  /\ Count(cities', h[r].name) = 1
            /\ AddInsertStep(r) => h'[r] = Idle]_vars

\* a name whose City has no Conditions was registered again with a new
\* observation: the request answered with the error and the City still has
\* no Conditions
C12_Witness ==
    /\ out.by = "add_city"
    /\ out.kind = "error"
    /\ out.res = "ConstraintViolationError"
    /\ Count(cities, out.name) = 1
    /\ conditions_of(conds, out.name) = {}

\* the names of the first n listed cities, in the listed order
ListedNames(n) == [i \in 1..n |-> sync.listed[i].name]

\* C13: within a pass each listed city is fetched at most once and has its
\* insert attempted at most once: the fetches of the pass are those of the
\* first listed cities, one each and in the listed order, the inserts
\* attempted are those of the cities fetched with success, one each; after
\* a failed fetch the pass has ended and after a failed insert it is past
\* that city, so that neither is tried again before the next pass lists
\* the cities anew.
C13_NoRetryInsidePass ==
    /\ [](/\ Len(sync.fetchLog) <= Len(sync.listed)
          /\ [i \in DOMAIN sync.fetchLog |-> sync.fetchLog[i].name]
                = ListedNames(Len(sync.fetchLog))
          /\ Len(sync.tried) <= Len(sync.fetchLog)
          /\ sync.tried = ListedNames(Len(sync.tried)))
    /\ [](FailedFetches # {} =>
            (sync.pc = "sleep" /\ sync.result = "Err"
             /\ ~sync.fetchLog[Len(sync.fetchLog)].ok))
    /\ [][(sync.pc = "fetch" /\ sync' # sync) =>
            /\ Len(sync.fetchLog) = sync.idx - 1
            /\ Len(sync'.fetchLog) = sync.idx
            /\ sync'.pc \in {"insert", "sleep"}]_vars
    /\ [][SyncInsertStep =>
            /\ Len(sync.tried) = sync.idx - 1
            /\ sync'.idx = sync.idx + 1
            /\ sync'.pc \in {"fetch", "sleep"}]_vars
    /\ [][(sync.pc = "sleep" /\ sync' # sync) =>
            (sync'.pc = "update" /\ sync'.fetchLog = <<>>
             /\ sync'.tried = <<>> /\ sync'.listed = <<>>)]_vars

\* a pass over two cities ended on the failed fetch of the second after
\* the failed insert of the first
C13_Witness ==
    /\ sync.pc = "sleep"
    /\ Len(sync.listed) = 2
    /\ Len(sync.fetchLog) = 2
    /\ ~sync.fetchLog[2].ok
    /\ Len(sync.tried) = 1
    /\ conditions_of(conds, sync.tried[1]) = {}
    /\ Count(cities, sync.tried[1]) = 1

(***************************************************************************)
(* Properties of the store under every interleaving.                       *)
(***************************************************************************)
\* the Conditions objects of cn that link to no City named `name`
NotOf(cn, name) ==
    [row \in {x \in BagToSet(cn) : x.city # name} |-> cn[row]]

\* C14: in every reachable state each Conditions object links to exactly
\* one existing City; the Conditions change only by one object added by a
\* successful insert of the sync pass or of add_city, with every other
\* object as it was, or by the objects of one City deleted with that City
\* by remove_city.
C14_ConditionsHaveTheirCity ==
    /\ [](\A row \in BagToSet(conds) : Count(cities, row.city) = 1)
    /\ [][conds' # conds =>
            \/ /\ out'.by \in {"update_conditions", "add_city"}
               /\ out'.res = "Ok"
               /\ cities' = cities
               /\ \E t \in Temps :
                     conds' = conds (+) SetToBag({[city |-> out'.name,
                                                   temperature |-> t,
                                                   time |-> out'.body[1]]})
            \/ /\ out' = Out("remove_city", "City removed", out'.name, "Ok",
                              <<>>)
               /\ Count(cities, out'.name) = 1
               /\ Count(cities', out'.name) = 0
               /\ conds' = NotOf(conds, out'.name)]_vars
    /\ [][\A n \in Names :
            (Count(cities, n) = 1 /\ Count(cities', n) = 1) =>
               \A row \in BagToSet(conds) :
                  row.city = n => (BagIn(row, conds')
                                   /\ conds'[row] = conds[row])]_vars

\* after requests and passes interleaved, remove_city deleted the
\* registered City: the Conditions left are the two observations of the
\* seed, whose City exists
C14_Witness ==
    /\ out = Out("remove_city", "City removed", OtherName, "Ok", <<>>)
    /\ BagCardinality(conds) = 2
    /\ \A row \in BagToSet(conds) : row.city = city_data[1][1]

\* C15: a City removed while a pass is in progress is not created again:
\* remove_city leaves the pass as it is, with the name still listed; the
\* insert of the pass for a name that has no City fails with an error that
\* is no ConstraintViolation and is printed, adds no City and no
\* Conditions object, and the pass goes on to the fetch of the next listed
\* city, or ends with Ok after the last one.
C15_RemovedCityStaysRemoved ==
    /\ [][out'.by = "remove_city" => sync' = sync]_vars
    /\ [][(SyncInsertStep /\ Count(cities, sync.listed[sync.idx].name) = 0)
            =>
            /\ out'.by = "update_conditions"
            /\ out'.name = sync.listed[sync.idx].name
            /\ out'.res \in {"MissingRequiredError", ClientError}
            /\ out'.kind = "Unexpected error"
            /\ cities' = cities
            /\ conds' = conds
            /\ IF sync.idx < Len(sync.listed)
               THEN sync'.pc = "fetch" /\ sync'.idx = sync.idx + 1
               ELSE sync'.pc = "sleep" /\ sync'.result = "Ok"]_vars

\* the first of two listed cities was removed before its insert: the
\* database answered that the City is missing, no City of that name exists
\* and the pass is at the fetch of the second
C15_Witness ==
    /\ sync.pc = "fetch"
    /\ Len(sync.listed) = 2
    /\ sync.idx = 2
    /\ out.by = "update_conditions"
    /\ out.res = "MissingRequiredError"
    /\ Count(cities, sync.listed[1].name) = 0
    /\ conditions_of(conds, sync.listed[1].name) = {}

\* C16: a sync pass changes only the Conditions and only by adding: no step
\* of the sync task changes the City objects or removes or changes a
\* Conditions object; under every operation a City that exists before and
\* after a step has the same name, latitude and longitude, and the City
\* objects change only by one City added by init or add_city or by the
\* City of one name deleted by remove_city.
C16_PassOnlyAddsConditions ==
    /\ [][sync' # sync =>
            /\ cities' = cities
            /\ conds \sqsubseteq conds'
            /\ BagCardinality(conds') <= BagCardinality(conds) + 1
            /\ conds' # conds => out'.by = "update_conditions"]_vars
    /\ [][\A c \in BagToSet(cities) :
            Count(cities', c.name) >= 1 => Named(cities', c.name)
                                            = Named(cities, c.name)]_vars
    /\ [][cities' # cities =>
            \/ /\ out'.by = "init" /\ out'.res = "Ok"
               /\ \E i \in 1..Len(Seeds) :
                     /\ Seeds[i][1] = out'.name
                     /\ cities' = cities (+) SetToBag({SeedCity(i)})
            \/ /\ \E r \in Reqs :
                     /\ AddInsertCityStep(r)
                     /\ cities' = cities (+)
                           SetToBag({[name |-> h[r].name,
                                      latitude |-> h[r].lat,
                                      longitude |-> h[r].long]})
            \/ /\ out'.by = "remove_city"
               /\ cities' = Without(cities, Named(cities, out'.name))]_vars

\* a pass stored an observation of a registered City, which has the
\* coordinates it was registered with
C16_Witness ==
    /\ out.by = "update_conditions"
    /\ out.res = "Ok"
    /\ out.name = OtherName
    /\ \E c \in Coords :
          cities[[name |-> OtherName, latitude |-> c[1],
                  longitude |-> c[2]]] = 1
    /\ conditions_of(conds, OtherName) # {}

(***************************************************************************)
(* Properties of init.                                                     *)
(***************************************************************************)
\* the store that holds the six seeds
AllSeeds == SetToBag({SeedCity(i) : i \in 1..Len(city_data)})

\* C17: init attempts each of the six seeds whatever the result of the
\* inserts before it; a seed that is present yields ConstraintViolation
\* (or the error of the client) and leaves the store as it is, a seed that
\* is absent is inserted unless the client failed; init removes nothing,
\* so that on a store that holds all seeds it changes nothing; the sync
\* task is spawned and requests are served only after the sixth attempt.
C17_InitAttemptsEverySeed ==
    /\ [][(main.pc = "init" /\ main'.pc = "init" /\ main' # main) =>
            LET name == city_data[main.i][1]
            IN  /\ main'.i = main.i + 1
                /\ out'.by = "init" /\ out'.name = name
                /\ conds' = conds
                /\ IF Count(cities, name) >= 1
                   THEN /\ out'.res \in {"ConstraintViolationError",
                                         ClientError}
                        /\ cities' = cities
                   ELSE /\ out'.res \in {"Ok", ClientError}
                        /\ cities' = IF out'.res = "Ok"
                                     THEN cities (+)
                                          SetToBag({SeedCity(main.i)})
                                     ELSE cities]_vars
    /\ [][(main.pc = "init" /\ main'.pc # "init") =>
            (main.i = Len(city_data) + 1 /\ store' = store)]_vars
    /\ [](pass.start[1] \sqsubseteq cities /\ cities \sqsubseteq AllSeeds)
    /\ [](pass.start[1] = AllSeeds => store = pass.start)
    /\ [](main.pc = "init" =>
            (sync.pc = "unspawned" /\ out.by \in {"", "init"}
             /\ \A r \in Reqs : h[r] = Idle))
    /\ []((sync.pc # "unspawned" \/ out.by = "city_names") =>
            (main.pc = "serving" /\ main.i = Len(city_data) + 1))

\* the insert of the first seed failed and init went on to the last seed,
\* which was in the store already
C17_Witness ==
    /\ main.pc = "init"
    /\ main.i = Len(city_data) + 1
    /\ out.by = "init"
    /\ out.name = "Soldeu"
    /\ out.res = "ConstraintViolationError"
    /\ Count(cities, "Andorra la Vella") = 0
    /\ Count(cities, "Soldeu") = 1

====
